---- MODULE Spec2Model ----
(***************************************************************************)
(* Model of functions/totals/hfrprogs_mat_to_netcdf4.py: main(), which     *)
(* converts one HFRProgs MAT file of total vectors into a gridded netCDF   *)
(* dataset, and the batch loop of the __main__ block that calls it on      *)
(* every file in sorted order.                                             *)
(*                                                                         *)
(* Python arrays are functions over 0..n-1, so that indices read as in the *)
(* source (ds.u[0][0][1][1]).  Numbers are integers; the error variables   *)
(* and their thresholds are in tenths (0.6 is 6).                          *)
(***************************************************************************)
EXTENDS Integers, Sequences, FiniteSets, TLC

VARIABLES
    grid,        \* main's grid argument: the rows (lon, lat) of the grid file
    files,       \* the sorted batch of MAT files (line 369)
    flags,       \* main's flags argument: thresholds in dict order, <<>> is None
    domainArg,   \* main's domain argument: "" is the default []
    method,      \* main's method argument
    i,           \* batch loop: position of the file main is called on
    pc,          \* position inside main, or "driver" / "finished" / "crashed"
    data,        \* result of loadmat
    domain,      \* local domain after lines 58-63
    file_name,   \* local file_name (line 72)
    ex,          \* locals bound by the try block of lines 75-130
    ds,          \* the xarray dataset
    pre,         \* history: ds as it was just before the masking step
    log,         \* logging.error records, in order
    dirs,        \* directories create_dir has made
    written,     \* to_netcdf calls, in order
    steps,       \* history: steps of the current call of main that completed
    invoked,     \* history: positions main was called on, in order
    exc          \* the exception that left main, "none" if none

inputs == <<grid, files, flags, domainArg, method>>
locals == <<data, domain, file_name, ex, ds, pre>>
vars == <<grid, files, flags, domainArg, method, i, pc, data, domain,
          file_name, ex, ds, pre, log, dirs, written, steps, invoked, exc>>

----------------------------------------------------------------------------
(* Bounds of the model.                                                    *)
MaxObs == 2
MaxGridRows == 2
MaxFiles == 2

----------------------------------------------------------------------------
(* Values.                                                                 *)

\* np.nan, the fill of temp_data (line 153) and of Dataset.where (line 182)
NaN == -9999

\* the keys of data_dict (lines 141-146), which are the data variables of ds
DataVars == {"u", "v", "u_err", "v_err", "uv_covariance", "num_radials"}

\* coords (line 167)
coords == <<"time", "z", "lat", "lon">>

\* a Python array of n elements
Arr(n, f(_)) == [k \in 0..(n - 1) |-> f(k)]
Size(a) == Cardinality(DOMAIN a)
Empty == Arr(0, LAMBDA k : 0)

\* a TLA+ sequence as a Python array
ToArr(s) == [k \in 0..(Len(s) - 1) |-> s[k + 1]]

RECURSIVE SortedSeq(_)
SortedSeq(S) ==
    IF S = {} THEN <<>>
    ELSE LET m == CHOOSE a \in S : \A b \in S : a <= b
         IN  <<m>> \o SortedSeq(S \ {m})

\* the values as they stand in the file, neither sorted nor deduplicated
unique_missing(a) == a

\* np.unique (lines 136-137): the distinct values, ascending
unique(a) == ToArr(SortedSeq({a[k] : k \in DOMAIN a}))

\* np.meshgrid(lon, lat) (line 138): both of shape (len(lat), len(lon))
meshgrid(lon, lat) ==
    [x |-> Arr(Size(lat), LAMBDA r : Arr(Size(lon), LAMBDA c : lon[c])),
     y |-> Arr(Size(lat), LAMBDA r : Arr(Size(lon), LAMBDA c : lat[r]))]

\* ndarray.shape of a 2-d and of a 4-d array
Shape2(a) == <<Size(a), IF Size(a) = 0 THEN 0 ELSE Size(a[0])>>
Shape4(a) == <<Size(a), Size(a[0]), Size(a[0][0]), Size(a[0][0][0])>>

Abs(n) == IF n < 0 THEN -n ELSE n

\* index of the first element of axis nearest to p
NearestIndex(axis, p) ==
    CHOOSE k \in DOMAIN axis :
        /\ \A j \in DOMAIN axis : Abs(axis[k] - p) <= Abs(axis[j] - p)
        /\ \A j \in DOMAIN axis : j < k => Abs(axis[k] - p) < Abs(axis[j] - p)

\* codar_processing.calc.gridded_index (called on line 150): for every point
\* the column and the row of the nearest cell, each axis on its own
gridded_index(x, y, px, py) ==
    [x_ind |-> Arr(Size(px), LAMBDA k : NearestIndex(x[0], px[k])),
     y_ind |-> Arr(Size(py), LAMBDA k : NearestIndex(Arr(Size(y), LAMBDA r : y[r][0]), py[k]))]

\* np.matlib.tile(np.nan, x.shape) (line 153)
tile(shape) == Arr(shape[1], LAMBDA r : Arr(shape[2], LAMBDA c : NaN))

\* an assignment in which an earlier element of a cell is kept
RECURSIVE AssignFirst(_, _, _, _, _)
AssignFirst(temp, y_ind, x_ind, values, k) ==
    IF k >= Size(values) THEN temp
    ELSE AssignFirst(IF temp[y_ind[k]][x_ind[k]] # NaN THEN temp
                     ELSE [temp EXCEPT ![y_ind[k]][x_ind[k]] = values[k]],
                     y_ind, x_ind, values, k + 1)

\* temp_data[(y_ind, x_ind)] = values (line 154): numpy assigns the elements
\* in index order, so a later element overwrites an earlier one
RECURSIVE AssignFrom(_, _, _, _, _)
AssignFrom(temp, y_ind, x_ind, values, k) ==
    IF k >= Size(values) THEN temp
    ELSE AssignFrom([temp EXCEPT ![y_ind[k]][x_ind[k]] = values[k]],
                    y_ind, x_ind, values, k + 1)

\* np.expand_dims(temp_data, axis=0)
expand_dims(a) == Arr(1, LAMBDA k : a)

\* the body of the loop of lines 152-161 for one key
GridOne(shape, y_ind, x_ind, values) ==
    expand_dims(expand_dims(AssignFrom(tile(shape), y_ind, x_ind, values, 0)))

----------------------------------------------------------------------------
(* The MAT file and loadmat (line 52).                                     *)

\* A MAT file is a record:
\*   name     the file name cut at "_", ending in year, month, day, HHMM
\*   loads    whether loadmat can read it
\*   style    which HFRProgs routine wrote it: "oi" (makeTotalsOI: one
\*            ErrorEstimates struct) or "lsq" (makeTotals: an array of them)
\*   nErr     the number of elements of TUV.ErrorEstimates
\*   missing  the path of a field the file lacks, <<>> if it lacks none
\*   DomainName  TUV.DomainName
\*   obs      the total vectors, one record a point

\* the scalars under TUV.OtherMetadata that main collects (lines 86-102, 121-124)
Params ==
    [maxspd |-> 300, MinNumSites |-> 2, MinNumRads |-> 3, tempthresh |-> 1,
     sx |-> 10, sy |-> 25, mdlvar |-> 420, errvar |-> 66, spatthresh |-> 30]

IsPrefix(m, p) ==
    /\ Len(m) > 0
    /\ Len(m) <= Len(p)
    /\ \A k \in 1..Len(m) : m[k] = p[k]

\* the element loadmat hands over for a MATLAB column of n numbers when
\* squeeze_me=True (line 52): unit dimensions are squeezed away, so a column
\* of one number arrives as a Python scalar, which has no astype, and an
\* empty matrix arrives as an empty one-dimensional array
squeeze_element(a) ==
    [kind |-> IF Size(a) = 1 THEN "scalar" ELSE "ndarray", a |-> a]

\* TUV.LonLat, n rows of (lon, lat), squeezed: two-dimensional only for n >= 2
LonLat(obs) ==
    [ndim |-> IF Len(obs) >= 2 THEN 2 ELSE 1,
     a |-> Arr(Len(obs), LAMBDA k : <<obs[k + 1].lon, obs[k + 1].lat>>)]

Column(obs, name) == squeeze_element(Arr(Len(obs), LAMBDA k : obs[k + 1][name]))

\* one attribute chain of main, as the try block evaluates it:
\*   path       the names after data[...]
\*   subscript  TRUE for ErrorEstimates[1]
\*   column     the per-point column it ends in and calls astype on, "" if none
Read(path, subscript, column) == [path |-> path, subscript |-> subscript, column |-> column]

\* lines 78-86
CommonReads ==
    << Read(<<"TUV", "LonLat">>, FALSE, ""),
       Read(<<"TUV", "U">>, FALSE, "u"),
       Read(<<"TUV", "V">>, FALSE, "v"),
       Read(<<"TUV", "UUnits">>, FALSE, ""),
       Read(<<"TUV", "VUnits">>, FALSE, ""),
       Read(<<"TUV", "OtherMetadata", "cleanTotals", "maxspd">>, FALSE, "") >>

\* lines 90-102
OIReads ==
    << Read(<<"TUV", "ErrorEstimates", "Uerr">>, FALSE, "u_err"),
       Read(<<"TUV", "ErrorEstimates", "Verr">>, FALSE, "v_err"),
       Read(<<"TUV", "ErrorEstimates", "UVCovariance">>, FALSE, ""),
       Read(<<"TUV", "OtherMatrixVars", "makeTotalsOI_TotalsNumRads">>, FALSE, "num_rads"),
       Read(<<"TUV", "OtherMetadata", "makeTotalsOI", "parameters", "MinNumRads">>, FALSE, ""),
       Read(<<"TUV", "OtherMetadata", "makeTotalsOI", "parameters", "MinNumSites">>, FALSE, ""),
       Read(<<"TUV", "OtherMetadata", "makeTotalsOI", "parameters", "mdlvar">>, FALSE, ""),
       Read(<<"TUV", "OtherMetadata", "makeTotalsOI", "parameters", "errvar">>, FALSE, ""),
       Read(<<"TUV", "OtherMetadata", "makeTotalsOI", "parameters", "sx">>, FALSE, ""),
       Read(<<"TUV", "OtherMetadata", "makeTotalsOI", "parameters", "sy">>, FALSE, ""),
       Read(<<"TUV", "OtherMetadata", "makeTotalsOI", "parameters", "tempthresh">>, FALSE, "") >>

\* lines 115-124
LSQReads ==
    << Read(<<"TUV", "ErrorEstimates", "Uerr">>, TRUE, "u_err"),
       Read(<<"TUV", "ErrorEstimates", "Verr">>, TRUE, "v_err"),
       Read(<<"TUV", "ErrorEstimates", "UVCovariance">>, TRUE, "uv_covariance"),
       Read(<<"TUV", "OtherMatrixVars", "makeTotals_TotalsNumRads">>, FALSE, "num_rads"),
       Read(<<"TUV", "OtherMetadata", "makeTotals", "parameters", "MinNumRads">>, FALSE, ""),
       Read(<<"TUV", "OtherMetadata", "makeTotals", "parameters", "MinNumSites">>, FALSE, ""),
       Read(<<"TUV", "OtherMetadata", "makeTotals", "parameters", "spatthresh">>, FALSE, ""),
       Read(<<"TUV", "OtherMetadata", "makeTotals", "parameters", "tempthresh">>, FALSE, "") >>

\* the reads of the try block for a method; neither branch of lines 88/113
\* is taken for any other method
MethodReads(m) ==
    CommonReads \o (IF m = "oi" THEN OIReads ELSE IF m = "lsq" THEN LSQReads ELSE <<>>)

\* the fields only a file of the other style holds
StyleOnly(style) ==
    IF style = "oi"
    THEN {<<"TUV", "OtherMatrixVars", "makeTotalsOI_TotalsNumRads">>,
          <<"TUV", "OtherMetadata", "makeTotalsOI">>}
    ELSE {<<"TUV", "OtherMatrixVars", "makeTotals_TotalsNumRads">>,
          <<"TUV", "OtherMetadata", "makeTotals">>}

Absent(d, path) ==
    \/ IsPrefix(d.missing, path)
    \/ \E q \in StyleOnly("oi") \cup StyleOnly("lsq") :
           q \notin StyleOnly(d.style) /\ IsPrefix(q, path)

\* the exception one read raises on the loaded file d, "none" if it succeeds
ReadExc(d, rd) ==
    IF d.missing = <<"TUV">> THEN "KeyError"
    ELSE IF Absent(d, rd.path) THEN "AttributeError"
    ELSE IF rd.path[2] = "ErrorEstimates" /\ rd.subscript /\ d.nErr < 2
         THEN "TypeError"       \* a lone mat_struct is not subscriptable
    ELSE IF rd.path[2] = "ErrorEstimates" /\ ~rd.subscript /\ d.nErr >= 2
         THEN "AttributeError"  \* an ndarray of structs has no Uerr
    ELSE IF rd.column # "" /\ Column(d.obs, rd.column).kind = "scalar"
         THEN "AttributeError"  \* a squeezed scalar has no astype
    ELSE "none"

RECURSIVE FirstExc(_, _, _)
FirstExc(d, reads, k) ==
    IF k > Len(reads) THEN "none"
    ELSE IF ReadExc(d, reads[k]) # "none" THEN ReadExc(d, reads[k])
    ELSE FirstExc(d, reads, k + 1)

\* a vector of the same five entries for both methods
processing_parameters_five(m) ==
    ToArr(<<Params.maxspd, Params.MinNumSites, Params.MinNumRads, Params.tempthresh,
            IF m = "oi" THEN Params.sx ELSE Params.spatthresh>>)

\* processing_parameters (lines 103 and 125)
processing_parameters(m) ==
    IF m = "oi"
    THEN ToArr(<<Params.maxspd, Params.MinNumSites, Params.MinNumRads, Params.tempthresh,
                 Params.sx, Params.sy, Params.mdlvar, Params.errvar>>)
    ELSE ToArr(<<Params.maxspd, Params.MinNumSites, Params.MinNumRads, Params.tempthresh,
                 Params.spatthresh>>)

\* the locals the try block of lines 75-130 leaves bound when nothing is raised
Extracted(d, m) ==
    [lonlat |-> LonLat(d.obs),
     u |-> Column(d.obs, "u").a,
     v |-> Column(d.obs, "v").a,
     bound |-> m \in {"oi", "lsq"},
     u_err |-> Column(d.obs, "u_err").a,
     v_err |-> Column(d.obs, "v_err").a,
     uv_covariance |-> Column(d.obs, "uv_covariance").a,
     num_rads |-> Column(d.obs, "num_rads").a,
     processing_parameters |-> processing_parameters(m)]

----------------------------------------------------------------------------
(* The dataset (lines 135-355).                                            *)

\* timestamp_from_lluv_filename (line 65): the time the file name ends in
timestamp_from_lluv_filename(name) ==
    LET n == Len(name)
    IN  [year |-> name[n - 3], month |-> name[n - 2], day |-> name[n - 1],
         hour |-> name[n] \div 100, minute |-> name[n] % 100]

\* time.strftime('%Y%m%dT%H%M%SZ') (line 70)
time_string(t) == <<t.year, t.month, t.day, "T", t.hour, t.minute, 0, "Z">>

\* 'RU_{}_{}.nc'.format(domain, time_string) (line 72)
FileName(dom, t) == <<"RU", dom, time_string(t), "nc">>

\* lines 58-63
Domain(arg, d) ==
    IF arg = ""
    THEN IF d.DomainName = "" THEN "MARA" ELSE d.DomainName
    ELSE "MARA"

\* the exception lines 136-150 raise, "none" if none: data_dict names u_err,
\* which no branch bound (line 143); lonlat[:, 0] needs two dimensions (line 150)
GridExc(e) ==
    IF ~e.bound THEN "NameError"
    ELSE IF e.lonlat.ndim # 2 THEN "IndexError"
    ELSE "none"

\* data_dict (lines 141-146)
data_dict(e) ==
    [key \in DataVars |-> IF key = "num_radials" THEN e.num_rads ELSE e[key]]

\* lines 136-178: the dataset of the six gridded variables and the coordinates
Gridded(g, e, t) ==
    LET lon == unique(Arr(Len(g), LAMBDA k : g[k + 1][1]))
        lat == unique(Arr(Len(g), LAMBDA k : g[k + 1][2]))
        mesh == meshgrid(lon, lat)
        ind == gridded_index(mesh.x, mesh.y,
                             Arr(Size(e.lonlat.a), LAMBDA k : e.lonlat.a[k][1]),
                             Arr(Size(e.lonlat.a), LAMBDA k : e.lonlat.a[k][2]))
    IN  [vars |-> [key \in DataVars |->
                     [dims |-> coords,
                      values |-> GridOne(Shape2(mesh.x), ind.y_ind, ind.x_ind,
                                         data_dict(e)[key])]],
         lon |-> lon, lat |-> lat, z |-> Arr(1, LAMBDA k : 0),
         time |-> Arr(1, LAMBDA k : t)]

\* value <= threshold as numpy compares: never true of nan
Leq(a, b) == a # NaN /\ a <= b

\* a 4-d array of the shape of a, cell by cell
Map4(a, f(_, _, _, _)) ==
    Arr(Size(a), LAMBDA t : Arr(Size(a[t]), LAMBDA z : Arr(Size(a[t][z]), LAMBDA r :
        Arr(Size(a[t][z][r]), LAMBDA c : f(t, z, r, c)))))

\* a masking that clips to the threshold instead of blanking
where_clip(d, k, v) ==
    LET cond == d.vars[k].values
    IN  [d EXCEPT !.vars =
            [n \in DOMAIN d.vars |->
                [d.vars[n] EXCEPT !.values =
                    Map4(d.vars[n].values,
                         LAMBDA t, z, r, c :
                            IF Leq(cond[t][z][r][c], v)
                            THEN d.vars[n].values[t][z][r][c] ELSE v)]]]

\* a masking that touches variable k alone
where_one_variable(d, k, v) ==
    [d EXCEPT !.vars[k].values =
        Map4(d.vars[k].values,
             LAMBDA t, z, r, c :
                IF Leq(d.vars[k].values[t][z][r][c], v)
                THEN d.vars[k].values[t][z][r][c] ELSE NaN)]

\* ds.where(ds[k] <= v) (line 182): every data variable of ds keeps its value
\* where the condition holds and becomes nan elsewhere
where(d, k, v) ==
    LET cond == d.vars[k].values
    IN  [d EXCEPT !.vars =
            [n \in DOMAIN d.vars |->
                [d.vars[n] EXCEPT !.values =
                    Map4(d.vars[n].values,
                         LAMBDA t, z, r, c :
                            IF Leq(cond[t][z][r][c], v)
                            THEN d.vars[n].values[t][z][r][c] ELSE NaN)]]]

\* the loop of lines 180-182 over flags.items() from pair k on
RECURSIVE Masked(_, _, _)
Masked(d, fl, k) ==
    IF k > Len(fl) THEN d
    ELSE Masked(where(d, fl[k][1], fl[k][2]), fl, k + 1)

\* ds['processing_parameters'] = (('parameters'), processing_parameters) (line 184)
WithParameters(d, e) ==
    [d EXCEPT !.vars = [n \in DOMAIN d.vars \cup {"processing_parameters"} |->
        IF n = "processing_parameters"
        THEN [dims |-> <<"parameters">>, values |-> e.processing_parameters]
        ELSE d.vars[n]]]

\* global_attributes['method'] (lines 196-199)
MethodLabel(m) ==
    IF m = "oi" THEN "Optimal Interpolation" ELSE "Unweighted Least Squares"

\* lines 186-355: the attributes and the two container variables
WithAttributes(d, m) ==
    [vars |-> [n \in DOMAIN d.vars \cup {"crs", "instrument"} |->
                 IF n \in {"crs", "instrument"}
                 THEN [dims |-> <<>>, values |-> Empty]
                 ELSE d.vars[n]],
     lon |-> d.lon, lat |-> d.lat, z |-> d.z, time |-> d.time,
     attrs |-> [method |-> MethodLabel(m),
                geospatial_lon_min |-> d.lon[0],
                geospatial_lon_max |-> d.lon[Size(d.lon) - 1],
                geospatial_lat_min |-> d.lat[0],
                geospatial_lat_max |-> d.lat[Size(d.lat) - 1]]]

----------------------------------------------------------------------------
(* The inputs the runs are drawn from.                                     *)

SeqsUpTo(S, lo, hi) == UNION {[1..n -> S] : n \in lo..hi}

\* rows of a grid file, as pd.read_csv hands them over (line 375)
GridPoints == {<<-75, 38>>, <<-74, 38>>, <<-74, 39>>}
GridFiles == SeqsUpTo(GridPoints, 1, MaxGridRows)
ExampleGrid == <<(<<-75, 38>>), (<<-74, 39>>)>>
RowGrid == <<(<<-74, 38>>), (<<-75, 38>>)>>

\* total vectors: a position and the six values of the point
ObsPoints == {<<-75, 38>>, <<-74, 39>>}
ExampleValues ==
    [u |-> 10, v |-> -5, u_err |-> 3, v_err |-> 3, uv_covariance |-> 3, num_rads |-> 2]
ObsValues ==
    { ExampleValues,
      [u |-> 20, v |-> -7, u_err |-> 9, v_err |-> 3, uv_covariance |-> 4, num_rads |-> 3],
      [u |-> 30, v |-> -9, u_err |-> 3, v_err |-> 9, uv_covariance |-> 6, num_rads |-> 4] }
At(p, w) ==
    [lon |-> p[1], lat |-> p[2], u |-> w.u, v |-> w.v, u_err |-> w.u_err,
     v_err |-> w.v_err, uv_covariance |-> w.uv_covariance, num_rads |-> w.num_rads]
Obs == { At(p, w) : p \in ObsPoints, w \in ObsValues }
ObsLists == SeqsUpTo(Obs, 0, MaxObs)
ExampleLists == SeqsUpTo({ At(p, ExampleValues) : p \in ObsPoints }, 0, MaxObs)
\* total vectors of which one holds nan, as HFRProgs leaves a value it could
\* not estimate
NaNValues ==
    [u |-> 40, v |-> -11, u_err |-> NaN, v_err |-> 3, uv_covariance |-> 3, num_rads |-> 5]
NaNLists ==
    SeqsUpTo({ At(p, w) : p \in ObsPoints, w \in {ExampleValues, NaNValues} }, 2, MaxObs)
ExampleObs ==
    << [lon |-> -75, lat |-> 38, u |-> 20, v |-> -7, u_err |-> 9, v_err |-> 3,
        uv_covariance |-> 4, num_rads |-> 3],
       At(<<-74, 39>>, ExampleValues) >>

\* threshold of the __main__ block (line 372)
threshold == << <<"u_err", 6>>, <<"v_err", 6>>, <<"uv_covariance", 6>> >>

\* flags arguments: None, the threshold of the __main__ block, and others
FlagChoices ==
    { <<>>, threshold, << <<"v_err", 6>> >>, << <<"u", 20>>, <<"u_err", 6>> >> }

\* a file written by the routine of the given style that lacks nothing
ValidFile(style, obs) ==
    [loads |-> TRUE, style |-> style, nErr |-> IF style = "oi" THEN 1 ELSE 2,
     missing |-> <<>>, DomainName |-> "BPU", obs |-> obs]

\* fields a file of the batch may lack
MissingChoices ==
    { <<"TUV">>, <<"TUV", "DomainName">>, <<"TUV", "U">>,
      <<"TUV", "OtherMetadata", "cleanTotals">> }

\* the files a batch is made of
FileKinds ==
    { [ValidFile("oi", ExampleObs) EXCEPT !.loads = FALSE],
      ValidFile("oi", ExampleObs),
      ValidFile("lsq", ExampleObs),
      [ValidFile("oi", ExampleObs) EXCEPT !.DomainName = ""],
      [ValidFile("lsq", ExampleObs) EXCEPT !.nErr = 1] }
    \cup { [ValidFile("oi", ExampleObs) EXCEPT !.missing = m] : m \in MissingChoices }

\* sorted(glob.glob(...)) (line 369): the names ascend with the position
Named(kinds) ==
    [k \in 1..Len(kinds) |->
        [name |-> <<"tuv", "MARA", 2019, 1, 1, 100 * (k - 1)>>,
         loads |-> kinds[k].loads, style |-> kinds[k].style, nErr |-> kinds[k].nErr,
         missing |-> kinds[k].missing, DomainName |-> kinds[k].DomainName,
         obs |-> kinds[k].obs]]

Methods == {"oi", "lsq", "other"}

save_dir == "../../data/totals/nc/hourly"

NoData == [loads |-> FALSE]
NoEx == [bound |-> FALSE]
NoDs == [vars |-> <<>>]

\* one valid file, of any total vectors on the example grids or of example
\* vectors on any grid, under any flags; one valid file with nan among its
\* values; one valid file under a method main does not know; or a batch of
\* files of all kinds on the example grid under the threshold of the
\* __main__ block
Init ==
    /\ \/ /\ \E s \in {"oi", "lsq"}, obs \in ObsLists :
                /\ files = Named(<<ValidFile(s, obs)>>)
                /\ method = s
          /\ grid \in {ExampleGrid, RowGrid}
          /\ flags \in FlagChoices
          /\ domainArg = ""
       \/ /\ \E s \in {"oi", "lsq"}, obs \in ExampleLists :
                /\ files = Named(<<ValidFile(s, obs)>>)
                /\ method = s
          /\ grid \in GridFiles
          /\ flags \in FlagChoices
          /\ domainArg = ""
       \/ /\ \E obs \in NaNLists : files = Named(<<ValidFile("oi", obs)>>)
          /\ method = "oi"
          /\ grid = ExampleGrid
          /\ flags \in FlagChoices
          /\ domainArg = ""
       \/ /\ \E s \in {"oi", "lsq"}, obs \in ExampleLists :
                files = Named(<<ValidFile(s, obs)>>)
          /\ method = "other"
          /\ grid = ExampleGrid
          /\ flags = <<>>
          /\ domainArg = ""
       \/ /\ grid = ExampleGrid
          /\ \E kinds \in SeqsUpTo(FileKinds, 0, MaxFiles) : files = Named(kinds)
          /\ method \in Methods
          /\ flags = threshold
          /\ domainArg \in {"", "NYHOPS"}
    /\ i = 1
    /\ pc = "driver"
    /\ data = NoData
    /\ domain = ""
    /\ file_name = <<>>
    /\ ex = NoEx
    /\ ds = NoDs
    /\ pre = NoDs
    /\ log = <<>>
    /\ dirs = {}
    /\ written = <<>>
    /\ steps = <<>>
    /\ invoked = <<>>
    /\ exc = "none"

----------------------------------------------------------------------------
(* main, step by step, and the loop that calls it.                         *)

\* main returns to the loop of line 406
Return ==
    /\ pc' = "driver"
    /\ i' = i + 1
    /\ exc' = exc

\* an exception leaves main, and with it the loop and the program
Raise(e) ==
    /\ pc' = "crashed"
    /\ i' = i
    /\ exc' = e

\* for file in files: main(grid, file, ...) (lines 406-407, 49)
Call ==
    /\ pc = "driver"
    /\ i <= Len(files)
    /\ pc' = "load"
    /\ invoked' = Append(invoked, i)
    /\ steps' = <<>>
    /\ data' = NoData /\ domain' = "" /\ file_name' = <<>>
    /\ ex' = NoEx /\ ds' = NoDs /\ pre' = NoDs
    /\ UNCHANGED <<inputs, i, log, dirs, written, exc>>

\* the loop of line 406 is exhausted
Finish ==
    /\ pc = "driver"
    /\ i > Len(files)
    /\ pc' = "finished"
    /\ UNCHANGED <<inputs, i, locals, log, dirs, written, steps, invoked, exc>>

\* lines 50-56
Load ==
    /\ pc = "load"
    /\ IF files[i].loads
       THEN /\ data' = files[i]
            /\ steps' = Append(steps, "loadmat")
            /\ pc' = "domain"
            /\ UNCHANGED <<i, log, exc>>
       ELSE /\ log' = Append(log, [file |-> i, msg |-> "MAT file could not be loaded."])
            /\ steps' = Append(steps, "return")
            /\ Return
            /\ UNCHANGED data
    /\ UNCHANGED <<inputs, domain, file_name, ex, ds, pre, dirs, written, invoked>>

\* the exception lines 58-59 raise: data['TUV'].DomainName is read outside
\* any try, and only when no domain was passed
DomainExc(arg, d) ==
    IF arg # "" THEN "none"
    ELSE ReadExc(d, Read(<<"TUV", "DomainName">>, FALSE, ""))

\* lines 58-73 with create_dir(save_dir) moved up ahead of the try block
Name_create_dir_first ==
    /\ pc = "domain"
    /\ IF DomainExc(domainArg, data) # "none"
       THEN /\ Raise(DomainExc(domainArg, data))
            /\ UNCHANGED <<domain, file_name, steps, dirs>>
       ELSE /\ domain' = Domain(domainArg, data)
            /\ file_name' = FileName(domain', timestamp_from_lluv_filename(data.name))
            /\ dirs' = dirs \cup {save_dir}
            /\ steps' = steps \o <<"file_name", "create_dir">>
            /\ pc' = "extract"
            /\ UNCHANGED <<i, exc>>
    /\ UNCHANGED <<inputs, data, ex, ds, pre, log, written, invoked>>

\* lines 58-73
Name ==
    /\ pc = "domain"
    /\ IF DomainExc(domainArg, data) # "none"
       THEN /\ Raise(DomainExc(domainArg, data))
            /\ UNCHANGED <<domain, file_name, steps>>
       ELSE /\ domain' = Domain(domainArg, data)
            /\ file_name' = FileName(domain', timestamp_from_lluv_filename(data.name))
            /\ steps' = Append(steps, "file_name")
            /\ pc' = "extract"
            /\ UNCHANGED <<i, exc>>
    /\ UNCHANGED <<inputs, data, ex, ds, pre, log, dirs, written, invoked>>

\* whether the except clause of line 131 catches
Caught(e) == e = "AttributeError"

\* lines 75-133
Extract ==
    /\ pc = "extract"
    /\ LET e == FirstExc(data, MethodReads(method), 1)
       IN  IF e = "none"
           THEN /\ ex' = Extracted(data, method)
                /\ steps' = Append(steps, "extract")
                /\ pc' = "grid"
                /\ UNCHANGED <<i, log, exc>>
           ELSE IF Caught(e)
           THEN /\ log' = Append(log, [file |-> i,
                        msg |-> "MAT file missing variable needed to create netCDF4 file"])
                /\ steps' = Append(steps, "return")
                /\ Return
                /\ UNCHANGED ex
           ELSE /\ Raise(e)
                /\ UNCHANGED <<ex, log, steps>>
    /\ UNCHANGED <<inputs, data, domain, file_name, ds, pre, dirs, written, invoked>>

\* lines 135-178
Grid ==
    /\ pc = "grid"
    /\ IF GridExc(ex) # "none"
       THEN /\ Raise(GridExc(ex))
            /\ UNCHANGED <<ds, steps>>
       ELSE /\ ds' = Gridded(grid, ex, timestamp_from_lluv_filename(data.name))
            /\ steps' = Append(steps, "grid")
            /\ pc' = "mask"
            /\ UNCHANGED <<i, exc>>
    /\ UNCHANGED <<inputs, data, domain, file_name, ex, pre, log, dirs, written, invoked>>

\* lines 180-184
Mask ==
    /\ pc = "mask"
    /\ pre' = ds
    /\ ds' = WithParameters(Masked(ds, flags, 1), ex)
    /\ steps' = Append(steps, "mask")
    /\ pc' = "attrs"
    /\ UNCHANGED <<inputs, i, data, domain, file_name, ex, log, dirs, written, invoked, exc>>

\* lines 186-355
Attrs ==
    /\ pc = "attrs"
    /\ ds' = WithAttributes(ds, method)
    /\ steps' = Append(steps, "attrs")
    /\ pc' = "mkdir"
    /\ UNCHANGED <<inputs, i, data, domain, file_name, ex, pre, log, dirs, written,
                   invoked, exc>>

\* create_dir(save_dir) (line 358)
CreateDir ==
    /\ pc = "mkdir"
    /\ dirs' = dirs \cup {save_dir}
    /\ steps' = Append(steps, "create_dir")
    /\ pc' = "write"
    /\ UNCHANGED <<inputs, i, locals, log, written, invoked, exc>>

\* ds.to_netcdf(file_and_path, ...) (lines 361-362), and main returns
Write ==
    /\ pc = "write"
    /\ written' = Append(written, [dir |-> save_dir, file |-> file_name, ds |-> ds, by |-> i])
    /\ steps' = Append(steps, "to_netcdf")
    /\ Return
    /\ UNCHANGED <<inputs, locals, log, dirs, invoked>>

Next ==
    \/ Call
    \/ Finish
    \/ Load
    \/ Name
    \/ Extract
    \/ Grid
    \/ Mask
    \/ Attrs
    \/ CreateDir
    \/ Write

Spec == Init /\ [][Next]_vars

----------------------------------------------------------------------------
(* Vocabulary of the properties.                                           *)

Range(q) == {q[k] : k \in DOMAIN q}

\* the step has completed in the current call of main
Done(step) == step \in Range(steps)

\* the value of data variable n of dataset d in cell (r, c)
Cell(d, n, r, c) == d.vars[n].values[0][0][r][c]

Rows(d) == 0..(Size(d.lat) - 1)
Cols(d) == 0..(Size(d.lon) - 1)

\* the six data variables of a dataset, values only
DataOf(d) == [n \in DataVars |-> d.vars[n].values]

\* the dataset cut down to its six data variables
OnlyData(d) == [vars |-> [n \in DataVars |-> d.vars[n]], lon |-> d.lon, lat |-> d.lat]

\* the distinct latitudes and longitudes of a grid file
DistinctLat(g) == {g[k][2] : k \in 1..Len(g)}
DistinctLon(g) == {g[k][1] : k \in 1..Len(g)}

\* main has ended on the file at position k, by return or by exception
Ended(k) == k \in Range(invoked) /\ (k < i \/ pc = "crashed")
Crashed(k) == pc = "crashed" /\ i = k
Logged(k) == \E j \in 1..Len(log) : log[j].file = k
WrittenBy(k) == {j \in 1..Len(written) : written[j].by = k}

----------------------------------------------------------------------------
(* C1: threshold masking.                                                  *)

\* the flags hold a pair for variable n whose threshold the value exceeds
Exceeds(n, value) ==
    \E k \in 1..Len(flags) : flags[k][1] = n /\ value # NaN /\ value > flags[k][2]

Passes(d, r, c) ==
    \A k \in 1..Len(flags) : Leq(Cell(d, flags[k][1], r, c), flags[k][2])

----------------------------------------------------------------------------
(* C2: a file that lacks a field.                                          *)

\* the attribute chains main evaluates for its arguments, in order
AllReads ==
    (IF domainArg = "" THEN <<Read(<<"TUV", "DomainName">>, FALSE, "")>> ELSE <<>>)
    \o MethodReads(method)

\* the file loads but lacks a field main reads: the TUV struct, a field of
\* it, or the second element of ErrorEstimates that method 'lsq' reads
LacksField(f) ==
    /\ f.loads
    /\ \E k \in 1..Len(AllReads) :
          \/ f.missing = <<"TUV">>
          \/ Absent(f, AllReads[k].path)
          \/ AllReads[k].path[2] = "ErrorEstimates" /\ AllReads[k].subscript /\ f.nErr < 2

\* C2 as stated: when main has ended on a file that loads but lacks a field
\* it reads, an error is logged for the file, no output file was written
\* for it, and no exception left main.
C2_MissingFieldIsSkipped ==
    \A k \in 1..Len(files) :
        (Ended(k) /\ LacksField(files[k])) =>
            /\ Logged(k)
            /\ WrittenBy(k) = {}
            /\ ~Crashed(k)

----------------------------------------------------------------------------
(* C3: the name of the output file.                                        *)

\* the domain C3 names: the override when one is given, else TUV.DomainName,
\* else 'MARA'
ClaimedDomain(f) ==
    IF domainArg # "" THEN domainArg
    ELSE IF f.DomainName = "" THEN "MARA" ELSE f.DomainName

\* C3 as stated: every file written is named RU_<domain>_<timestamp>.nc with
\* the timestamp of the input file's name and the domain passed to main,
\* or TUV.DomainName ('MARA' when empty) when none is passed.
C3_FileNameUsesOverride ==
    \A j \in 1..Len(written) :
        LET f == files[written[j].by]
            n == Len(f.name)
        IN  written[j].file =
                <<"RU", ClaimedDomain(f),
                  <<f.name[n - 3], f.name[n - 2], f.name[n - 1], "T",
                    f.name[n] \div 100, f.name[n] % 100, 0, "Z">>, "nc">>

----------------------------------------------------------------------------
(* C4: the batch.                                                          *)

\* the file fails in one of the two recoverable classes
Recoverable(f) == ~f.loads \/ LacksField(f)

\* the program has ended: the loop is exhausted or an exception left it
Terminated == pc \in {"finished", "crashed"}

\* C4 as stated, for the arguments of the __main__ block: main is called on
\* the files in sorted order, one after the other, and once the program has
\* ended it has been called on every file after a file that failed in a
\* recoverable class.
C4_FailureNeverEndsBatch ==
    (method = "oi" /\ domainArg = "" /\ flags = threshold) =>
        /\ \A k \in 1..Len(invoked) : invoked[k] = k
        /\ Terminated =>
              \A k \in 1..Len(files) :
                  (k \in Range(invoked) /\ Recoverable(files[k])) =>
                      \A j \in (k + 1)..Len(files) : j \in Range(invoked)

----------------------------------------------------------------------------
(* C5: writing comes last.                                                 *)

\* C5: a call of main that ends by skip-and-log has neither created the
\* output directory nor written a file; a call that writes has completed
\* loading, naming, extraction, gridding, masking and attribute assignment
\* before, in that order, and writes once; no file is ever written for an
\* input that was skipped.
C5_WriteIsLast ==
    /\ Done("return") => ~Done("create_dir") /\ ~Done("to_netcdf")
    /\ Done("create_dir") =>
          \E m \in 1..Len(steps) :
              /\ steps[m] = "create_dir"
              /\ \A s \in {"loadmat", "file_name", "extract", "grid", "mask", "attrs"} :
                    \E q \in 1..(m - 1) : steps[q] = s
    /\ Done("to_netcdf") =>
          steps = <<"loadmat", "file_name", "extract", "grid", "mask", "attrs",
                    "create_dir", "to_netcdf">>
    /\ \A k \in 1..Len(files) :
          /\ Cardinality(WrittenBy(k)) <= 1
          /\ Logged(k) => WrittenBy(k) = {}
    /\ written # <<>> => save_dir \in dirs

\* a batch in which one file was skipped over a missing field and another
\* was written
C5_Witness ==
    /\ \E k \in 1..Len(files) :
          /\ Logged(k)
          /\ files[k].loads
          /\ WrittenBy(k) = {}
    /\ written # <<>>
    /\ pc = "finished"

----------------------------------------------------------------------------
(* C6: the shape of the data variables.                                    *)

\* C6: once main has gridded a file, every data variable has the dimensions
\* (time, z, lat, lon) and the shape (1, 1, N, M), N the number of distinct
\* latitudes and M the number of distinct longitudes of the grid file; the
\* masking and the attributes leave it so, and so does every file written.
C6_Shape ==
    LET shape == <<1, 1, Cardinality(DistinctLat(grid)), Cardinality(DistinctLon(grid))>>
    IN  /\ Done("grid") =>
              \A n \in DataVars :
                  /\ ds.vars[n].dims = <<"time", "z", "lat", "lon">>
                  /\ Shape4(ds.vars[n].values) = shape
        /\ \A j \in 1..Len(written) : \A n \in DataVars :
              Shape4(written[j].ds.vars[n].values) = shape

\* a file gridded on a grid file with a repeated latitude, fewer latitudes
\* than longitudes and unordered rows
C6_Witness ==
    /\ pc = "mask"
    /\ Len(grid) > Cardinality(DistinctLat(grid))
    /\ Cardinality(DistinctLat(grid)) < Cardinality(DistinctLon(grid))
    /\ grid[1][1] > grid[2][1]
    /\ Len(files[i].obs) = MaxObs

----------------------------------------------------------------------------
(* C7 and C9: the scatter step.                                            *)

\* the points of file f whose nearest cell on the grid is (r, c)
MappedTo(f, r, c) ==
    LET lon == SortedSeq(DistinctLon(grid))
        lat == SortedSeq(DistinctLat(grid))
    IN  { k \in 1..Len(f.obs) :
            /\ NearestIndex(ToArr(lon), f.obs[k].lon) = c
            /\ NearestIndex(ToArr(lat), f.obs[k].lat) = r }

\* the value of point k of file f for data variable n
ObsValue(f, k, n) == IF n = "num_radials" THEN f.obs[k].num_rads ELSE f.obs[k][n]

\* the file lacks nothing main reads and was written by the routine of the
\* method main is called with
Valid(f) == f.loads /\ f.missing = <<>> /\ f.style = method

\* C7 as stated: with no threshold map, when main has ended on a valid file
\* it has written a dataset in which every cell no point maps to is missing
\* in every data variable and every cell a point maps to holds the value of
\* a point mapped there; so for one point it holds that point's values.
C7_ScatterOfEveryValidFile ==
    \A k \in 1..Len(files) :
        (Ended(k) /\ Valid(files[k]) /\ flags = <<>>) =>
            \E j \in WrittenBy(k) :
                \A n \in DataVars : \A r \in Rows(written[j].ds) : \A c \in Cols(written[j].ds) :
                    IF MappedTo(files[k], r, c) = {}
                    THEN Cell(written[j].ds, n, r, c) = NaN
                    ELSE \E m \in MappedTo(files[k], r, c) :
                            Cell(written[j].ds, n, r, c) = ObsValue(files[k], m, n)

\* the greatest element of a set of numbers
Max(S) == CHOOSE a \in S : \A b \in S : b <= a

\* C9: in the dataset main has gridded, a cell that points map to holds, in
\* every data variable, the value of the last of them in input order, and a
\* cell no point maps to is missing.
C9_LastPointWins ==
    pc = "mask" =>
        \A n \in DataVars : \A r \in Rows(ds) : \A c \in Cols(ds) :
            LET K == MappedTo(files[i], r, c)
            IN  Cell(ds, n, r, c) =
                    IF K = {} THEN NaN ELSE ObsValue(files[i], Max(K), n)

\* two points with different values in every variable mapped to one cell
C9_Witness ==
    /\ pc = "mask"
    /\ \E r \in Rows(ds) : \E c \in Cols(ds) :
          \E a, b \in MappedTo(files[i], r, c) :
              /\ a < b
              /\ \A n \in DataVars : ObsValue(files[i], a, n) # ObsValue(files[i], b, n)
              /\ Cell(ds, "u", r, c) = ObsValue(files[i], b, "u")

----------------------------------------------------------------------------
(* C8: the two methods.                                                    *)

\* main on a valid file, from loadmat to the dataset handed to to_netcdf
DatasetOf(f, g, fl, m) ==
    WithAttributes(
        WithParameters(
            Masked(Gridded(g, Extracted(f, m), timestamp_from_lluv_filename(f.name)), fl, 1),
            Extracted(f, m)),
        m)

\* the names of the dimensions of a variable and their lengths
VarShape(w) ==
    IF Len(w.dims) = 4 THEN Shape4(w.values)
    ELSE IF Len(w.dims) = 1 THEN <<Size(w.values)>>
    ELSE <<>>

\* the variables of a dataset, each with its dimensions and their lengths
Schema(d) == [n \in DOMAIN d.vars |-> [dims |-> d.vars[n].dims, shape |-> VarShape(d.vars[n])]]

OtherMethod(m) == IF m = "oi" THEN "lsq" ELSE "oi"

\* the same total vectors as written by the routine of the other method
Twin(f) ==
    [f EXCEPT !.style = OtherMethod(f.style),
              !.nErr = IF f.style = "oi" THEN 2 ELSE 1]

\* C8 as stated: the dataset written for a file has the variables, the
\* dimensions and the dimension lengths of the dataset the other method
\* yields for the same total vectors on the same grid.
C8_SameSchema ==
    \A j \in 1..Len(written) :
        Schema(written[j].ds) =
            Schema(DatasetOf(Twin(files[written[j].by]), grid, flags, OtherMethod(method)))

\* a schema without the processing_parameters vector
SchemaBut(d) ==
    [n \in (DOMAIN d.vars) \ {"processing_parameters"} |-> Schema(d)[n]]

\* C8 amended: the two methods yield the same variables with the same
\* dimensions, and the same lengths of time, z, lat and lon; the dimension
\* 'parameters' of processing_parameters has length 8 for 'oi' and 5 for
\* 'lsq'.
C8_SameSchemaButParameters ==
    \A j \in 1..Len(written) :
        LET d == written[j].ds
            o == DatasetOf(Twin(files[written[j].by]), grid, flags, OtherMethod(method))
        IN  /\ DOMAIN d.vars = DOMAIN o.vars
            /\ DOMAIN d.vars = DataVars \cup {"processing_parameters", "crs", "instrument"}
            /\ SchemaBut(d) = SchemaBut(o)
            /\ d.vars["processing_parameters"].dims = <<"parameters">>
            /\ o.vars["processing_parameters"].dims = <<"parameters">>
            /\ Size(d.vars["processing_parameters"].values) = (IF method = "oi" THEN 8 ELSE 5)
            /\ Size(o.vars["processing_parameters"].values) = (IF method = "oi" THEN 5 ELSE 8)

\* a file written with method 'lsq' and, in another run, with 'oi'
C8_Witness ==
    /\ written # <<>>
    /\ method = "lsq"
    /\ Size(written[1].ds.vars["processing_parameters"].values) = 5

----------------------------------------------------------------------------
(* C10: the order of the thresholds.                                       *)

\* the orders in which the pairs of a flags map can be applied
Orders(fl) ==
    { [k \in 1..Len(fl) |-> fl[p[k]]] :
        p \in {q \in [1..Len(fl) -> 1..Len(fl)] :
                 \A a, b \in 1..Len(fl) : a # b => q[a] # q[b]} }

\* C10: the data variables main holds after the masking step are those that
\* applying the pairs of the flags map to the gridded dataset in any order
\* yields, and applying the map once more changes none of them.
C10_OrderIndependentIdempotent ==
    pc = "attrs" =>
        /\ \A fl \in Orders(flags) : DataOf(Masked(pre, fl, 1)) = DataOf(ds)
        /\ DataOf(Masked(OnlyData(ds), flags, 1)) = DataOf(ds)

\* a masking step with two pairs of which the first alone blanks a cell
C10_Witness ==
    /\ pc = "attrs"
    /\ Len(flags) >= 2
    /\ \E r \in Rows(pre) : \E c \in Cols(pre) :
          /\ Cell(pre, "u", r, c) # NaN
          /\ ~Leq(Cell(pre, flags[1][1], r, c), flags[1][2])
          /\ Leq(Cell(pre, flags[2][1], r, c), flags[2][2])
          /\ Cell(ds, "u", r, c) = NaN

----------------------------------------------------------------------------
(* C11: the missing cells of the six variables.                            *)

\* no value of a total vector of the file is nan
NoNaNInput(f) ==
    \A k \in 1..Len(f.obs) : \A n \in DataVars : ObsValue(f, k, n) # NaN

\* the cells of data variable n of dataset d that are missing
MissingCells(d, n) ==
    { <<r, c>> \in Rows(d) \X Cols(d) : Cell(d, n, r, c) = NaN }

\* C11: in every dataset main writes for a file none of whose values is nan,
\* the six data variables are missing in the same cells, with and without
\* a threshold map.
C11_SameMissingCells ==
    \A j \in 1..Len(written) :
        NoNaNInput(files[written[j].by]) =>
            \A n \in DataVars :
                MissingCells(written[j].ds, n) = MissingCells(written[j].ds, "u")

\* a file without nan written under a threshold map that blanked a cell a
\* point maps to and kept another
C11_Witness ==
    \E j \in 1..Len(written) :
        LET f == files[written[j].by]
            d == written[j].ds
        IN  /\ NoNaNInput(f)
            /\ flags # <<>>
            /\ \E r \in Rows(d) : \E c \in Cols(d) :
                  MappedTo(f, r, c) # {} /\ <<r, c>> \in MissingCells(d, "u")
            /\ \E r \in Rows(d) : \E c \in Cols(d) : <<r, c>> \notin MissingCells(d, "u")

\* without the proviso: the same of every dataset main writes
SameMissingCellsAlways ==
    \A j \in 1..Len(written) : \A n \in DataVars :
        MissingCells(written[j].ds, n) = MissingCells(written[j].ds, "u")

----------------------------------------------------------------------------
(* C12: a method main does not know.                                       *)

\* the file loads and lacks no field
OtherwiseValid(f) == f.loads /\ f.missing = <<>>

\* what C12 says of the call of main on the file at position k
RaisedBeforeGridding(k) ==
    /\ ~Logged(k)
    /\ Crashed(k)
    /\ exc = "NameError"
    /\ Done("extract")
    /\ ~ex.bound
    /\ ~Done("grid")
    /\ ~Done("create_dir")
    /\ WrittenBy(k) = {}

\* C12 as stated: when main has ended on an otherwise valid file under a
\* method that is neither 'oi' nor 'lsq', it has logged no error, the try
\* block completed without binding the error and num_radials variables, an
\* exception left main before gridding, and neither the output directory
\* nor a file was created.
C12_UnknownMethodRaises ==
    \A k \in 1..Len(files) :
        (Ended(k) /\ method \notin {"oi", "lsq"} /\ OtherwiseValid(files[k])) =>
            RaisedBeforeGridding(k)

\* the same of the files that hold no or several total vectors
UnknownMethodRaisesButOnePoint ==
    \A k \in 1..Len(files) :
        (Ended(k) /\ method \notin {"oi", "lsq"} /\ OtherwiseValid(files[k])
            /\ Len(files[k].obs) # 1) =>
            RaisedBeforeGridding(k)

====
